---- MODULE Spec2Model ----
(***************************************************************************)
(* PX4Gyroscope (src/lib/drivers/gyroscope/PX4Gyroscope.cpp) as a state    *)
(* machine.  The object's fields are the record `gyro`; every public       *)
(* method is one action; every private method is an operator from an       *)
(* object record to an object record.                                      *)
(*                                                                         *)
(* Number representation.  Raw samples are int16 counts.  The float        *)
(* accumulator _integration_raw holds multiples of 0.5, so the model keeps *)
(* TWICE its value (field integration_raw2).  _scale and                   *)
(* _calibration_offset are integers of a fixed-point unit; a delta angle   *)
(* is kept as the integer  2 * 1e6 * (value in the code).  All values of   *)
(* the model are far below 2^24, where binary32 arithmetic on them is      *)
(* exact.  A calibrated reading is the rational num/den, or "NaN".         *)
(***************************************************************************)
EXTENDS Integers, Sequences, FiniteSets, TLC

\* ------------------------------------------------------------- bounds
MaxCalls == 3        \* update()/updateFIFO() calls in one run
MaxN == 2            \* largest batch length delivered
MaxConfig == 1       \* set_update_rate()/ioctl() calls in one run
StatusCalls == 3     \* calls in one run of SpecStatus
ConfigCalls == 2     \* calls in one run of SpecConfig
SplitCalls == 3      \* calls in one run of SpecSplit
MaxSplitN == 2       \* largest batch length of SpecSplit
ClockStep == 50000   \* granularity of the clock (us)

\* ---------------------------------------------------- program constants
INT16_MAX == 32767
\* +inf of binary32: above every finite value of the model
Infinity == 16777216
StatusInterval == 100000      \* 100_ms, in microseconds

\* ------------------------------------------------------------- inputs
Axes == 1..3
\* raw (x, y, z) samples: plain values, and values at the ends of int16
Triples == { <<100, 10, 0>>, <<100, -20, 32767>> }
\* (x, y, z) of update(): floats, not confined to int16
Singles == { <<100, 10, 0>>, <<100, -20, 40000>> }
\* inter-sample interval of a batch (us)
Dts == {2}
\* sample timestamps (us, 0 is never delivered): equal, apart, out of order
Timestamps == {1, 6}
\* time between two calls, and between the two clock reads of one call (us)
Elapsed == {0, ClockStep, 2 * ClockStep}
Between == {0, ClockStep}
Rates == {100, 500}
InitialRate == {250}
Rotations == {"ROTATION_NONE", "ROTATION_YAW_90"}
Offsets == { <<3, 0, 0>> }
\* scales and full scale ranges the setters are given
Scales == {0, 2}
Ranges == {0, 80000}
\* what the reads outside the batch may return (indeterminate values): per
\* axis, sample.x[N - 1] (last) and sum(sample.x, N - 1) (sum)
Garbage == { [last |-> <<0, 0, 0>>, sum |-> <<0, 0, 0>>],
             [last |-> <<7, -7, 7>>, sum |-> <<-9, 9, 9>>] }
\* a batch with N > 0 reads nothing outside itself
GarbageFor(N) == IF N = 0 THEN Garbage ELSE { [last |-> <<0, 0, 0>>, sum |-> <<0, 0, 0>>] }
\* results of the external single-sample integrator
PutResults == { [ready |-> FALSE, delta_angle |-> <<0, 0, 0>>, integral_dt |-> 0],
                [ready |-> TRUE, delta_angle |-> <<2, 0, 0>>, integral_dt |-> 4000] }

\* a batch of any samples
RECURSIVE SeqsOf(_, _)
SeqsOf(S, n) ==
  IF n = 0 THEN { <<>> } ELSE { Append(q, t) : q \in SeqsOf(S, n - 1), t \in S }
MixedBatchesOf(N) == { [ samples |-> N, x |-> [n \in 1..N |-> q[n][1]],
                         y |-> [n \in 1..N |-> q[n][2]], z |-> [n \in 1..N |-> q[n][3]] ]
                       : q \in SeqsOf(Triples, N) }
MixedBatches == UNION { MixedBatchesOf(N) : N \in 1..MaxSplitN }

\* a FIFO batch: N samples per axis, the first N elements of x[], y[], z[];
\* the samples of one batch are equal, those of two batches need not be
BatchesOf(N) == { [ samples |-> N, x |-> [n \in 1..N |-> t[1]],
                    y |-> [n \in 1..N |-> t[2]], z |-> [n \in 1..N |-> t[3]] ]
                  : t \in Triples }
Batches == UNION { BatchesOf(N) : N \in 0..MaxN }

\* ------------------------------------------------------------ helpers
Abs(v) == IF v < 0 THEN -v ELSE v
Max(a, b) == IF a >= b THEN a ELSE b
uint8(v) == v % 256

RECURSIVE SumTo(_, _)
SumTo(s, len) == IF len = 0 THEN 0 ELSE SumTo(s, len - 1) + s[len]

\* sum(): adds samples[0..len-1].  A len beyond the delivered batch reads
\* array elements that were never written (and, beyond 16, memory outside
\* the array): the result is the indeterminate value oob.
sum(samples, len, oob) == IF len <= Len(samples) THEN SumTo(samples, len) ELSE oob

\* samples[i] (0-based, as in the code); outside the batch: indeterminate
At(samples, i, oob) == IF i \in 0..(Len(samples) - 1) THEN samples[i + 1] ELSE oob

\* clipping(): how many of samples[0..len-1] have abs(.) >= clip_limit
clipping(samples, clip_limit, len) ==
  Cardinality({ n \in 1..len : Abs(samples[n]) >= clip_limit })

\* rotate_3f / get_rot_matrix for the two orientations of the model
rotate_3f(rot, v) == IF rot = "ROTATION_YAW_90" THEN << -v[2], v[1], v[3] >> ELSE v

\* 99.9% of potential max, not below INT16_MAX.  With _scale = 0 the float
\* quotient is +inf for a positive range (the limit is then +inf), NaN for
\* range 0 and -inf for a negative one (fmaxf then returns INT16_MAX).  The
\* ranges and scales of the model give whole quotients.
UpdateClipLimit(range, scale) ==
  IF scale = 0 THEN (IF range > 0 THEN Infinity ELSE INT16_MAX)
  ELSE Max((range * 999) \div (scale * 1000), INT16_MAX)

\* the float _clip_limit passed as the int16_t parameter of clipping(): the
\* conversion of a value outside int16 is undefined; builds wrap the value
\* into 16 bits or saturate it, and convert +inf to -1, 0 or INT16_MAX
WrapInt16(v) == ((v + 32768) % 65536) - 32768
Int16Limits(limit) ==
  IF limit <= INT16_MAX THEN { limit }
  ELSE IF limit = Infinity THEN { -1, 0, INT16_MAX }
  ELSE { WrapInt16(limit), INT16_MAX }

\* 4000 / (1000000 / rate)
ResetSamplesOf(rate) == 4000 \div (1000000 \div rate)

VARIABLES gyro,          \* the PX4Gyroscope object
          now,           \* hrt_absolute_time()
          op, arg, pub,  \* the last call: its name, its input, what it published
          calls,         \* history: number of update()/updateFIFO() calls
          configs,       \* history: number of set_update_rate()/ioctl() calls
          window,        \* history: the batches folded in since the last reset
          since_gap,     \* history: samples delivered since the last gap batch
          had_gap,       \* history: some batch arrived after a gap
          stream_ok,     \* history: only gap-free valid batches, fixed rate
          fifo_calls,    \* history: number of updateFIFO() calls
          steady,        \* history: updateFIFO() calls only, under one reset count
          status_times   \* history: timestamps of all status reports

vars == << gyro, now, op, arg, pub, calls, configs, window, since_gap, had_gap,
           stream_ok, fifo_calls, steady, status_times >>

NoPub == [gyro |-> <<>>, integrated |-> <<>>, fifo |-> <<>>, status |-> <<>>]
NoArg == [samples |-> 0, x |-> <<>>, y |-> <<>>, z |-> <<>>, dt |-> 0, timestamp_sample |-> 0]

\* ------------------------------------------------------ private methods
\* mutant: the reset also clears the lifetime counters
ResetIntegrator_ClearsLifetime(g) ==
  [g EXCEPT !.integrator_samples = 0,
            !.integrator_fifo_samples = 0,
            !.integration_raw2 = <<0, 0, 0>>,
            !.integrator_clipping = 0,
            !.clipping = <<0, 0, 0>>,
            !.timestamp_sample_prev = 0]

\* mutant: the reset also clears the previous delta angle
ResetIntegrator_ClearsVibration(g) ==
  [g EXCEPT !.integrator_samples = 0,
            !.integrator_fifo_samples = 0,
            !.integration_raw2 = <<0, 0, 0>>,
            !.integrator_clipping = 0,
            !.delta_angle_prev = <<0, 0, 0>>,
            !.timestamp_sample_prev = 0]

ResetIntegrator(g) ==
  [g EXCEPT !.integrator_samples = 0,
            !.integrator_fifo_samples = 0,
            !.integration_raw2 = <<0, 0, 0>>,
            !.integrator_clipping = 0,
            !.timestamp_sample_prev = 0]

\* PublishStatus(): t1 is the clock read by hrt_elapsed_time, t2 >= t1 the
\* clock read for status.timestamp.  Returns the object and the reports.
\* mutant: a status is due only after more than the interval
StatusDue_Strict(g, t1) == t1 - g.status_last_publish > StatusInterval

StatusDue(g, t1) == t1 - g.status_last_publish >= StatusInterval

\* mutant: the time of the publication is not recorded
PublishStatus_NoRecord(g, t1, t2) ==
  IF StatusDue(g, t1)
  THEN [g |-> g,
        status |-> << [timestamp |-> t2, error_count |-> g.error_count,
                       full_scale_range |-> g.range, rotation |-> g.rotation,
                       measure_rate_hz |-> g.update_rate,
                       vibration_metric |-> g.vibration_metric,
                       coning_vibration |-> g.coning_vibration,
                       clipping |-> g.clipping] >>]
  ELSE [g |-> g, status |-> <<>>]

\* mutant: publishing the status starts the lifetime counters anew
PublishStatus_ClearsCounters(g, t1, t2) ==
  IF StatusDue(g, t1)
  THEN [g |-> [g EXCEPT !.status_last_publish = t2, !.clipping = <<0, 0, 0>>],
        status |-> << [timestamp |-> t2, error_count |-> g.error_count,
                       full_scale_range |-> g.range, rotation |-> g.rotation,
                       measure_rate_hz |-> g.update_rate,
                       vibration_metric |-> g.vibration_metric,
                       coning_vibration |-> g.coning_vibration,
                       clipping |-> g.clipping] >>]
  ELSE [g |-> g, status |-> <<>>]

PublishStatus(g, t1, t2) ==
  IF StatusDue(g, t1)
  THEN [g |-> [g EXCEPT !.status_last_publish = t2],
        status |-> << [timestamp |-> t2, error_count |-> g.error_count,
                       full_scale_range |-> g.range, rotation |-> g.rotation,
                       measure_rate_hz |-> g.update_rate,
                       vibration_metric |-> g.vibration_metric,
                       coning_vibration |-> g.coning_vibration,
                       clipping |-> g.clipping] >>]
  ELSE [g |-> g, status |-> <<>>]

\* mutant: the gap is measured against twenty, not two, batch durations
GapDetected_Late(g, ts, N, dt) ==
  (ts > g.timestamp_sample_prev) /\ ((ts - g.timestamp_sample_prev) > N * dt * 20)

\* mutant: the unsigned difference is taken without the test of the order
GapDetected_Unordered(g, ts, N, dt) ==
  (ts < g.timestamp_sample_prev) \/ ((ts - g.timestamp_sample_prev) > N * dt * 2)

\* the gap test of updateFIFO()
GapDetected(g, ts, N, dt) ==
  (ts > g.timestamp_sample_prev) /\ ((ts - g.timestamp_sample_prev) > N * dt * 2)

\* mutant: an empty batch publishes no reading
FIFOReading_SkipEmpty(g, s) ==
  IF s.samples = 0 THEN <<>>
  ELSE << [timestamp_sample |-> s.timestamp_sample,
           val |-> [i \in Axes |-> [num |-> 0, den |-> s.samples]]] >>

\* sensor_gyro of a batch: the average, rotated, scaled, offset removed
FIFOReading(g, s) ==
  LET N == s.samples
      avgN == rotate_3f(g.rotation, << sum(s.x, N, 0), sum(s.y, N, 0), sum(s.z, N, 0) >>)
  IN  << [timestamp_sample |-> s.timestamp_sample,
          val |-> IF N = 0 THEN "NaN"
                  ELSE [i \in Axes |-> [num |-> avgN[i] * g.scale - g.calibration_offset[i] * N,
                                        den |-> N]]] >>

\* the clip counting of updateFIFO(); lim is _clip_limit as clipping()
\* receives it
CountClipping(g, s, lim) ==
  LET N == s.samples
      c == << clipping(s.x, lim, N), clipping(s.y, lim, N), clipping(s.z, lim, N) >>
  IN  [g EXCEPT !.clipping = [i \in Axes |-> g.clipping[i] + c[i]],
                !.integrator_clipping = g.integrator_clipping + c[1] + c[2] + c[3]]

\* mutant: the last sample of the batch is not kept for the next one
Integrate_KeepsLast(g, s, gl, gs) ==
  LET N == s.samples
      a == << s.x, s.y, s.z >>
      last == [i \in Axes |-> At(a[i], N - 1, gl[i])]
  IN  [g EXCEPT !.integrator_samples = g.integrator_samples + 1,
                !.integrator_fifo_samples = g.integrator_fifo_samples + N,
                !.integration_raw2 =
                   [i \in Axes |-> g.integration_raw2[i] + (g.last_sample[i] + last[i])
                                   + 2 * sum(a[i], uint8(N - 1), gs[i])]]

\* "integrate": counters, trapezoid, last sample
Integrate(g, s, gl, gs) ==
  LET N == s.samples
      a == << s.x, s.y, s.z >>
      last == [i \in Axes |-> At(a[i], N - 1, gl[i])]
  IN  [g EXCEPT !.integrator_samples = g.integrator_samples + 1,
                !.integrator_fifo_samples = g.integrator_fifo_samples + N,
                !.integration_raw2 =
                   [i \in Axes |-> g.integration_raw2[i] + (g.last_sample[i] + last[i])
                                   + 2 * sum(a[i], uint8(N - 1), gs[i])],
                !.last_sample = last]

\* mutant: the flush waits for one batch more
FlushDue_Strict(g) ==
  g.integrator_fifo_samples > 0 /\ g.integrator_samples > g.integrator_reset_samples

FlushDue(g) ==
  g.integrator_fifo_samples > 0 /\ g.integrator_samples >= g.integrator_reset_samples

\* mutant: the report counts batches where it should count samples
IntegratedReport_CountsBatches(g, s) ==
  [timestamp_sample |-> s.timestamp_sample,
   delta_angle |-> <<0, 0, 0>>,
   dt |-> g.integrator_samples * s.dt,
   samples |-> g.integrator_samples,
   clip_count |-> g.integrator_clipping]

\* sensor_gyro_integrated of the batch path
IntegratedReport(g, s) ==
  LET rot == rotate_3f(g.rotation, g.integration_raw2)
  IN  [timestamp_sample |-> s.timestamp_sample,
       delta_angle |-> [i \in Axes |->
           (rot[i] * g.scale - 2 * g.calibration_offset[i] * g.integrator_fifo_samples) * s.dt],
       dt |-> g.integrator_fifo_samples * s.dt,
       samples |-> g.integrator_fifo_samples,
       clip_count |-> g.integrator_clipping]

\* UpdateVibrationMetrics().  Each metric is 0.99 * metric + 0.01 * norm(term):
\* a function of the terms filtered in so far.  The model keeps a metric as
\* the sequence of those terms, oldest first, a term as the two vectors it is
\* computed from: (delta_angle - prev) for the vibration metric,
\* (delta_angle x prev) for the coning metric.
UpdateVibrationMetrics(g, delta_angle) ==
  [g EXCEPT !.vibration_metric =
               Append(g.vibration_metric, [diff |-> << delta_angle, g.delta_angle_prev >>]),
            !.coning_vibration =
               Append(g.coning_vibration, [cross |-> << delta_angle, g.delta_angle_prev >>]),
            !.delta_angle_prev = delta_angle]

\* mutant: the flush forgets the reset
FIFOFlush_NoReset(g, s) == UpdateVibrationMetrics(g, <<0, 0, 0>>)

\* the flush of updateFIFO(): publish, vibration metrics, reset
FIFOFlush(g, s) == ResetIntegrator(UpdateVibrationMetrics(g, IntegratedReport(g, s).delta_angle))

\* updateFIFO() up to and without PublishStatus()
FIFOBody(g, s, gl, gs, lim) ==
  LET g1 == CountClipping(g, s, lim)
      gap == GapDetected(g1, s.timestamp_sample, s.samples, s.dt)
      g2 == IF gap THEN ResetIntegrator(g1) ELSE g1
      g3 == Integrate(g2, s, gl, gs)
      g4 == IF FlushDue(g3) THEN FIFOFlush(g3, s) ELSE g3
  IN  [g |-> [g4 EXCEPT !.timestamp_sample_prev = s.timestamp_sample],
       gap |-> gap,
       gyro |-> FIFOReading(g, s),
       integrated |-> IF FlushDue(g3) THEN << IntegratedReport(g3, s) >> ELSE <<>>,
       fifo |-> << [timestamp_sample |-> s.timestamp_sample, dt |-> s.dt,
                    scale |-> g.scale, samples |-> s.samples] >>]

\* the clip counting of update(): on the rotated values, strictly above
CountClippingSingle(g, raw) ==
  LET c == [i \in Axes |-> IF Abs(raw[i]) > g.clip_limit THEN 1 ELSE 0]
  IN  [g EXCEPT !.clipping = [i \in Axes |-> g.clipping[i] + c[i]],
                !.integrator_clipping = g.integrator_clipping + c[1] + c[2] + c[3]]

\* sensor_gyro of a single sample
SingleReading(g, ts, raw) ==
  << [timestamp_sample |-> ts,
      val |-> [i \in Axes |-> [num |-> raw[i] * g.scale - g.calibration_offset[i],
                               den |-> 1]]] >>

\* update() up to and without PublishStatus(); put is what _integrator.put()
\* returns for this sample
UpdateBody(g, ts, v, put) ==
  LET raw == rotate_3f(g.rotation, v)
      g1 == CountClippingSingle(g, raw)
      g2 == [g1 EXCEPT !.integrator_samples = g1.integrator_samples + 1]
      rep == [timestamp_sample |-> ts, delta_angle |-> put.delta_angle,
              dt |-> put.integral_dt, samples |-> g2.integrator_samples,
              clip_count |-> g2.integrator_clipping]
  IN  [g |-> IF put.ready
             THEN UpdateVibrationMetrics(ResetIntegrator(g2), put.delta_angle)
             ELSE g2,
       gyro |-> SingleReading(g, ts, raw),
       integrated |-> IF put.ready THEN << rep >> ELSE <<>>]

\* ------------------------------------------------------------- history
\* the gap as the specification words it
SpecGap(prev, ts, N, dt) == prev # 0 /\ (ts - prev) > 2 * N * dt

Flushed == pub.integrated # <<>>

\* a batch of the window, whether the gap test reset the integrator for it,
\* and _last_sample as the batch found it
Entry(s, gap, last) ==
  [samples |-> s.samples, x |-> s.x, y |-> s.y, z |-> s.z, gap |-> gap, last |-> last]

\* the second clock read of PublishStatus() happens only when it publishes
ClockReads(g, t1, DS) == IF StatusDue(g, t1) THEN DS ELSE {0}

TimesOf(status) == [i \in 1..Len(status) |-> status[i].timestamp]

\* -------------------------------------------------------------- actions
\* Every call takes the sets its inputs are drawn from: the batches or
\* samples, the sample timestamps, the time since the previous call, the time
\* between the two clock reads of PublishStatus(), and the length of the run.
\* The constructor.  The initial values of the fields are set in
\* PX4Gyroscope.hpp; the model starts from a zeroed integrator and a
\* configuration as the setters would have left it.
InitWith(RS, RateS, StartS) ==
  /\ \E rot \in RS, rate \in RateS :
       gyro = [ rotation |-> rot, scale |-> 2, range |-> 35,
                calibration_offset |-> <<0, 0, 0>>,
                clip_limit |-> UpdateClipLimit(35, 2),
                update_rate |-> rate,
                integrator_reset_samples |-> ResetSamplesOf(rate),
                clipping |-> <<0, 0, 0>>,
                integrator_clipping |-> 0,
                integrator_samples |-> 0,
                integrator_fifo_samples |-> 0,
                integration_raw2 |-> <<0, 0, 0>>,
                last_sample |-> <<0, 0, 0>>,
                timestamp_sample_prev |-> 0,
                delta_angle_prev |-> <<0, 0, 0>>,
                vibration_metric |-> <<>>,
                coning_vibration |-> <<>>,
                error_count |-> 0,
                status_last_publish |-> 0 ]
  /\ now \in StartS
  /\ op = "init" /\ arg = NoArg /\ pub = NoPub
  /\ calls = 0 /\ configs = 0 /\ window = <<>> /\ since_gap = 0 /\ had_gap = FALSE
  /\ stream_ok = TRUE /\ fifo_calls = 0 /\ steady = TRUE /\ status_times = <<>>

updateFIFO(BS, TS, ES, CS, maxcalls) ==
  /\ calls < maxcalls
  /\ \E b \in BS, dt \in Dts, ts \in TS, e \in ES :
     \E oob \in GarbageFor(b.samples), d \in ClockReads(gyro, now + e, CS) :
     \E s \in { [samples |-> b.samples, x |-> b.x, y |-> b.y, z |-> b.z,
                  dt |-> dt, timestamp_sample |-> ts] } :
     \E lim \in Int16Limits(gyro.clip_limit) :
     \E r \in { FIFOBody(gyro, s, oob.last, oob.sum, lim) } :
     \E st \in { PublishStatus(r.g, now + e, now + e + d) } :
     \E sg \in { SpecGap(gyro.timestamp_sample_prev, ts, s.samples, dt) } :
        /\ gyro' = st.g
        /\ now' = now + e + d
        /\ op' = "updateFIFO" /\ arg' = s
        /\ pub' = [gyro |-> r.gyro, integrated |-> r.integrated, fifo |-> r.fifo,
                   status |-> st.status]
        /\ calls' = calls + 1
        /\ window' = IF r.gap \/ Flushed THEN << Entry(s, r.gap, gyro.last_sample) >>
                      ELSE Append(window, Entry(s, r.gap, gyro.last_sample))
        /\ since_gap' = IF sg THEN s.samples ELSE since_gap + s.samples
        /\ had_gap' = (had_gap \/ sg)
        /\ stream_ok' = (stream_ok /\ s.samples > 0
                         /\ (fifo_calls > 0 =>
                               ts - arg.timestamp_sample <= 2 * s.samples * dt))
        /\ fifo_calls' = fifo_calls + 1
        /\ status_times' = status_times \o TimesOf(st.status)
        /\ UNCHANGED << configs, steady >>

update(VS, TS, ES, CS, maxcalls) ==
  /\ calls < maxcalls
  /\ \E v \in VS, put \in PutResults, ts \in TS, e \in ES :
     \E d \in ClockReads(gyro, now + e, CS) :
     \E r \in { UpdateBody(gyro, ts, v, put) } :
     \E st \in { PublishStatus(r.g, now + e, now + e + d) } :
        /\ gyro' = st.g
        /\ now' = now + e + d
        /\ op' = "update"
        /\ arg' = [samples |-> 1, x |-> << v[1] >>, y |-> << v[2] >>, z |-> << v[3] >>,
                   dt |-> 0, timestamp_sample |-> ts]
        /\ pub' = [gyro |-> r.gyro, integrated |-> r.integrated, fifo |-> <<>>,
                   status |-> st.status]
        /\ calls' = calls + 1
        /\ window' = IF Flushed THEN <<>> ELSE window
        /\ stream_ok' = FALSE /\ steady' = FALSE
        /\ status_times' = status_times \o TimesOf(st.status)
        /\ UNCHANGED << configs, since_gap, had_gap, fifo_calls >>

\* the setters: a call that sets the value already set changes nothing and
\* is left out
set_update_rate(RS, maxcalls) ==
  /\ calls < maxcalls /\ configs < MaxConfig
  /\ \E rate \in RS \ { gyro.update_rate } :
       gyro' = [gyro EXCEPT !.update_rate = rate,
                            !.integrator_reset_samples = ResetSamplesOf(rate)]
  /\ op' = "set_update_rate" /\ configs' = configs + 1
  /\ stream_ok' = (stream_ok /\ fifo_calls = 0)
  /\ steady' = (steady /\ fifo_calls = 0)
  /\ UNCHANGED << now, arg, pub, calls, window, since_gap, had_gap, fifo_calls,
                  status_times >>

\* ioctl(GYROIOCSSCALE): copies the offsets in
ioctl(OS, maxcalls) ==
  /\ calls < maxcalls /\ configs < MaxConfig
  /\ \E off \in OS \ { gyro.calibration_offset } :
       gyro' = [gyro EXCEPT !.calibration_offset = off]
  /\ op' = "ioctl" /\ configs' = configs + 1
  /\ UNCHANGED << now, arg, pub, calls, window, since_gap, had_gap, stream_ok,
                  fifo_calls, steady, status_times >>

\* set_scale() and set_range() of PX4Gyroscope.hpp: the clip limit is
\* recomputed whenever scale or range changes
set_scale(SS, maxcalls) ==
  /\ calls < maxcalls /\ configs < MaxConfig
  /\ \E sc \in SS \ { gyro.scale } :
       gyro' = [gyro EXCEPT !.scale = sc, !.clip_limit = UpdateClipLimit(gyro.range, sc)]
  /\ op' = "set_scale" /\ configs' = configs + 1
  /\ UNCHANGED << now, arg, pub, calls, window, since_gap, had_gap, stream_ok,
                  fifo_calls, steady, status_times >>

set_range(RS, maxcalls) ==
  /\ calls < maxcalls /\ configs < MaxConfig
  /\ \E range \in RS \ { gyro.range } :
       gyro' = [gyro EXCEPT !.range = range, !.clip_limit = UpdateClipLimit(range, gyro.scale)]
  /\ op' = "set_range" /\ configs' = configs + 1
  /\ UNCHANGED << now, arg, pub, calls, window, since_gap, had_gap, stream_ok,
                  fifo_calls, steady, status_times >>

Init == InitWith({"ROTATION_NONE"}, InitialRate, {StatusInterval})

Next ==
  \/ updateFIFO(Batches, Timestamps, {0}, {0}, MaxCalls)
  \/ update(Singles, {1}, {0}, {0}, MaxCalls)
  \/ set_update_rate(Rates, MaxCalls)

Spec == Init /\ [][Next]_vars

\* the same object from boot, under a passing clock and one-sample batches
InitStatus == InitWith({"ROTATION_NONE"}, InitialRate, {0})

NextStatus ==
  \/ updateFIFO(BatchesOf(1), {1}, Elapsed, Between, StatusCalls)
  \/ update({ <<100, 10, 0>> }, {1}, Elapsed, Between, StatusCalls)
  \/ set_update_rate(Rates, StatusCalls)
  \/ ioctl(Offsets, StatusCalls)

SpecStatus == InitStatus /\ [][NextStatus]_vars

\* the object under any orientation and calibration, fed single samples
InitConfig == InitWith(Rotations, InitialRate, {StatusInterval})

NextConfig ==
  \/ updateFIFO(BatchesOf(1), {1}, {0}, {0}, ConfigCalls)
  \/ update(Triples \cup Singles, {1}, {0}, {0}, ConfigCalls)
  \/ set_scale(Scales, ConfigCalls)
  \/ set_range(Ranges, ConfigCalls)
  \/ ioctl(Offsets, ConfigCalls)

SpecConfig == InitConfig /\ [][NextConfig]_vars

\* batches of unequal samples, the update rate set before the first of them
InitSplit == InitWith({"ROTATION_NONE"}, InitialRate \cup Rates, {StatusInterval})

NextSplit == updateFIFO(MixedBatches, Timestamps, {0}, {0}, SplitCalls)

SpecSplit == InitSplit /\ [][NextSplit]_vars

\* ---------------------------------------------------------------- claims
LastReport == pub.integrated[1]
FIFOFlushed == op = "updateFIFO" /\ Flushed

RECURSIVE WindowSamples(_)
WindowSamples(w) == IF w = <<>> THEN 0 ELSE w[1].samples + WindowSamples(Tail(w))

\* (axis, sample) pairs of a batch whose magnitude reaches the limit
ClipPairs(b, limit) ==
  Cardinality({ p \in Axes \X (1..b.samples) :
                  Abs((<< b.x, b.y, b.z >>)[p[1]][p[2]]) >= limit })

RECURSIVE WindowClips(_, _)
WindowClips(w, limit) ==
  IF w = <<>> THEN 0 ELSE ClipPairs(w[1], limit) + WindowClips(Tail(w), limit)

\* C1: every update() and every updateFIFO() call publishes exactly one
\* sensor_gyro message, whatever else the call does.
C1_OneReadingPerCall ==
  op \in {"update", "updateFIFO"} => Len(pub.gyro) = 1

C1_Witness ==
  /\ op = "updateFIFO" /\ Flushed /\ pub.status # <<>> /\ Len(pub.gyro) = 1
  /\ window[1].gap

\* C2: a batch with N = 0 is rejected: the call changes none of the
\* integrator state, clip counters, last sample or previous timestamp, and
\* publishes nothing.
C2_EmptyBatchRejected ==
  [][ (calls' = calls + 1 /\ op' = "updateFIFO" /\ arg'.samples = 0)
        => /\ pub' = NoPub
           /\ gyro'.integrator_samples = gyro.integrator_samples
           /\ gyro'.integrator_fifo_samples = gyro.integrator_fifo_samples
           /\ gyro'.integration_raw2 = gyro.integration_raw2
           /\ gyro'.integrator_clipping = gyro.integrator_clipping
           /\ gyro'.clipping = gyro.clipping
           /\ gyro'.last_sample = gyro.last_sample
           /\ gyro'.timestamp_sample_prev = gyro.timestamp_sample_prev ]_vars

\* C3: once a batch has arrived after a gap (prev_timestamp # 0 and more
\* than 2*N*dt later), no report of updateFIFO() counts a sample delivered
\* before that batch: its samples field counts at most the gap batch and
\* the batches after it.
C3_GapDiscardsWindow ==
  (FIFOFlushed /\ had_gap) => LastReport.samples <= since_gap

C3_Witness ==
  /\ FIFOFlushed /\ had_gap
  /\ LastReport.samples = since_gap /\ since_gap > arg.samples

\* C4: no step lowers a lifetime clip counter.
C4_LifetimeMonotonic ==
  [][ \A i \in Axes : gyro'.clipping[i] >= gyro.clipping[i] ]_vars

C4_Witness ==
  /\ gyro.clipping[3] >= 2 /\ Flushed /\ gyro.integrator_clipping = 0
  /\ gyro.integrator_samples = 0

\* C5: two consecutive status reports are at least 100 ms apart, and a run
\* of duration T (the clock starts at 0) holds at most T/100ms + 1 of them.
C5_StatusThrottled ==
  /\ \A i \in 1..(Len(status_times) - 1) :
        status_times[i + 1] - status_times[i] >= StatusInterval
  /\ Len(status_times) <= (now \div StatusInterval) + 1

C5_Witness ==
  /\ Len(status_times) = 2 /\ calls = 3 /\ pub.status = <<>>

\* C6: in a stream of valid batches without a gap after the first, under one
\* reset count K, exactly the calls whose number is a multiple of max(1,K)
\* publish a delta angle report.
C6_FlushEveryKth ==
  (stream_ok /\ fifo_calls > 0) =>
     (Flushed <=> (fifo_calls % Max(1, gyro.integrator_reset_samples) = 0))

C6_Witness ==
  /\ stream_ok /\ fifo_calls = 2 /\ Flushed /\ gyro.integrator_reset_samples = 2

\* C7: a report of updateFIFO() has samples = the sum of N over the batches
\* accumulated since the last reset, and dt = that sum times the dt of the
\* flushing batch.
C7_SamplesAndDt ==
  FIFOFlushed => /\ LastReport.samples = WindowSamples(window)
                 /\ LastReport.dt = WindowSamples(window) * arg.dt

C7_Witness ==
  /\ FIFOFlushed /\ Len(window) = 2
  /\ window[1].samples = 2 /\ window[2].samples = 1 /\ LastReport.samples = 3

\* C8: the clip_count of a report of updateFIFO() is the number of (axis,
\* sample) pairs at or above the clip limit among the batches folded into
\* the report, also when the window began with a gap reset (runs of
\* updateFIFO() calls only).
C8_ClipCountOfWindow ==
  (FIFOFlushed /\ fifo_calls = calls) => LastReport.clip_count = WindowClips(window, gyro.clip_limit)

\* C9: a window of valid batches without gap reset, in a run of updateFIFO()
\* calls only, whose samples of one axis all equal r
\* reports, under the identity rotation, the delta angle
\* (r*scale - offset) * samples * dt on that axis (here times 2, the unit
\* of the model's delta angles).
ConstantWindow(w, i, r) ==
  \A k \in 1..Len(w) :
     ~w[k].gap /\ w[k].samples > 0 /\ (\A n \in 1..w[k].samples : (<< w[k].x, w[k].y, w[k].z >>)[i][n] = r)

C9_ConstantRate ==
  \A i \in Axes, r \in {100, 10, -20} :
    (/\ FIFOFlushed /\ fifo_calls = calls /\ gyro.rotation = "ROTATION_NONE"
     /\ ConstantWindow(window, i, r))
       => LastReport.delta_angle[i]
            = 2 * (r * gyro.scale - gyro.calibration_offset[i])
                * LastReport.samples * arg.dt

\* C10: right after an updateFIFO() call that published a delta angle
\* report, the accumulation, both counters and the window clip counter are
\* zero and prev_timestamp is the (nonzero) timestamp of that batch.
C10_StateAfterFlush ==
  FIFOFlushed => /\ gyro.integration_raw2 = <<0, 0, 0>>
                 /\ gyro.integrator_samples = 0
                 /\ gyro.integrator_fifo_samples = 0
                 /\ gyro.integrator_clipping = 0
                 /\ gyro.timestamp_sample_prev = arg.timestamp_sample
                 /\ gyro.timestamp_sample_prev # 0

C10_Witness ==
  /\ FIFOFlushed /\ LastReport.clip_count > 0 /\ LastReport.samples >= 3
  /\ gyro.integrator_clipping = 0 /\ gyro.timestamp_sample_prev = 6

\* an updateFIFO() call whose batch is not later than the previous one
NonMonotonicCall ==
  /\ calls' = calls + 1 /\ op' = "updateFIFO"
  /\ gyro.timestamp_sample_prev # 0
  /\ arg'.timestamp_sample <= gyro.timestamp_sample_prev

FitsBatch(a) ==
  \A i \in Axes : (<< a.x, a.y, a.z >>)[i][1] \in (-INT16_MAX - 1)..INT16_MAX

\* C12: an update() call changes the lifetime clip counters and the window
\* clip counter by what updateFIFO() adds to them for the same sample given
\* as a batch of one, under any rotation and clip limit; a value equal to
\* the limit counts in both.
C12_SameClipCounts ==
  [][ (calls' = calls + 1 /\ op' = "update" /\ FitsBatch(arg'))
        => \A lim \in Int16Limits(gyro.clip_limit) :
             /\ gyro'.clipping = CountClipping(gyro, arg', lim).clipping
             /\ IF pub'.integrated # <<>>
                THEN pub'.integrated[1].clip_count
                       = CountClipping(gyro, arg', lim).integrator_clipping
                ELSE gyro'.integrator_clipping
                       = CountClipping(gyro, arg', lim).integrator_clipping ]_vars

\* C13: with scale 0 the clip limit that UpdateClipLimit() computes is
\* finite, and no call made under scale 0 counts a sample as clipped.
C13_ZeroScaleGuarded ==
  [][ /\ (op' \in {"set_scale", "set_range"} /\ configs' = configs + 1 /\ gyro'.scale = 0)
         => gyro'.clip_limit < Infinity
      /\ (calls' = calls + 1 /\ gyro.scale = 0)
         => gyro'.clipping = gyro.clipping ]_vars

\* twice the trapezoid of a batch that starts from the sample `last`
Trapezoid2(last, samples) ==
  last + 2 * SumTo(samples, Len(samples) - 1) + samples[Len(samples)]

\* the delta angle of a report made from twice the raw sum raw2
DeltaAngleOf(g, raw2, fifo_samples, dt) ==
  [i \in Axes |-> (rotate_3f(g.rotation, raw2)[i] * g.scale
                     - 2 * g.calibration_offset[i] * fifo_samples) * dt]

\* C14: the batch that the gap test reset the integrator for is accumulated
\* afresh: the raw sum after it, and the delta angle if the call reports,
\* are those of the batch alone, whatever was delivered before the gap (the
\* sum a newly constructed object has after the same batch).
C14_GapStartsFresh ==
  (/\ op = "updateFIFO" /\ arg.samples > 0 /\ window[Len(window)].gap
   /\ window[Len(window)].last \in Triples \cup { <<0, 0, 0>> })
    => LET fresh == << Trapezoid2(0, arg.x), Trapezoid2(0, arg.y), Trapezoid2(0, arg.z) >>
       IN  IF Flushed
           THEN LastReport.delta_angle = DeltaAngleOf(gyro, fresh, arg.samples, arg.dt)
           ELSE gyro.integration_raw2 = fresh

\* C15: a valid batch that arrives while prev_timestamp is 0 never triggers
\* the reset of the gap check, and the clips counted for it stay in the
\* window clip counter.
C15_NoResetWithoutPrev ==
  [][ (/\ calls' = calls + 1 /\ op' = "updateFIFO" /\ arg'.samples > 0
       /\ gyro.timestamp_sample_prev = 0)
        => /\ ~window'[Len(window')].gap
           /\ IF pub'.integrated # <<>>
              THEN pub'.integrated[1].clip_count
                     = gyro.integrator_clipping + ClipPairs(arg', gyro.clip_limit)
              ELSE gyro'.integrator_clipping
                     = gyro.integrator_clipping + ClipPairs(arg', gyro.clip_limit) ]_vars

\* the samples of one axis of the batches of a window, in order of arrival
RECURSIVE ConcatAxis(_, _)
ConcatAxis(w, i) ==
  IF w = <<>> THEN <<>>
  ELSE (<< w[1].x, w[1].y, w[1].z >>)[i] \o ConcatAxis(Tail(w), i)

\* C16: within one window of valid batches the raw sum is the composite
\* trapezoid of the concatenated samples, started from the last sample the
\* window's first batch found, whatever the sizes of the batches; and
\* last_sample is the last sample of the latest batch.
C16_TrapezoidOfWindow ==
  (op = "updateFIFO" /\ \A k \in 1..Len(window) : window[k].samples > 0)
    => LET T == [i \in Axes |-> Trapezoid2(window[1].last[i], ConcatAxis(window, i))]
       IN  /\ IF Flushed
              THEN LastReport.delta_angle
                     = DeltaAngleOf(gyro, T, WindowSamples(window), arg.dt)
              ELSE gyro.integration_raw2 = T
           /\ gyro.last_sample
                = << arg.x[arg.samples], arg.y[arg.samples], arg.z[arg.samples] >>

C16_Witness ==
  /\ FIFOFlushed /\ Len(window) = 2 /\ window[1].last # <<0, 0, 0>>
  /\ window[1].samples = 1 /\ window[2].y = <<10, -20>>
  /\ LastReport.samples = 3

VibrationState(g) == << g.vibration_metric, g.coning_vibration, g.delta_angle_prev >>

\* C17: a call that publishes a delta angle report filters that delta angle
\* into both metrics once and makes it prev_delta_angle; every other step
\* (a call without report, with or without a gap reset, and the setters)
\* leaves the vibration state as it is.  So prev_delta_angle is the delta
\* angle of the latest report, or zero before the first.
C17_VibrationOncePerReport ==
  [][ /\ IF calls' = calls + 1 /\ pub'.integrated # <<>>
         THEN LET d == pub'.integrated[1].delta_angle
              IN  VibrationState(gyro')
                    = << Append(gyro.vibration_metric,
                                [diff |-> << d, gyro.delta_angle_prev >>]),
                         Append(gyro.coning_vibration,
                                [cross |-> << d, gyro.delta_angle_prev >>]),
                         d >>
         ELSE VibrationState(gyro') = VibrationState(gyro)
      /\ gyro'.delta_angle_prev
           = IF gyro'.vibration_metric = <<>> THEN <<0, 0, 0>>
             ELSE gyro'.vibration_metric[Len(gyro'.vibration_metric)].diff[1] ]_vars

C17_Witness ==
  /\ op = "updateFIFO" /\ window[Len(window)].gap /\ ~Flushed
  /\ gyro.integrator_samples = 1 /\ gyro.integrator_fifo_samples = 1
  /\ Len(gyro.vibration_metric) = 1 /\ gyro.delta_angle_prev # <<0, 0, 0>>

\* C18: a call made when at least 100 ms have passed since the recorded
\* status emission publishes one status report, records that report's
\* timestamp, and the report carries the lifetime clip counters and the
\* vibration metrics as the call leaves them.
C18_StatusWhenDue ==
  [][ (calls' = calls + 1 /\ now' - gyro.status_last_publish >= StatusInterval)
        => /\ Len(pub'.status) = 1
           /\ gyro'.status_last_publish = pub'.status[1].timestamp
           /\ pub'.status[1].timestamp = now'
           /\ pub'.status[1].clipping = gyro'.clipping
           /\ pub'.status[1].vibration_metric = gyro'.vibration_metric
           /\ pub'.status[1].coning_vibration = gyro'.coning_vibration ]_vars

C18_Witness ==
  /\ op = "updateFIFO" /\ Flushed /\ pub.status # <<>> /\ Len(status_times) = 2
  /\ arg.z = << 32767 >> /\ gyro.clipping[3] >= 2
  /\ pub.status[1].clipping = gyro.clipping
  /\ Len(pub.status[1].vibration_metric) >= 2

\* the objects that the part of the last call before PublishStatus() can
\* have left, from the object g the call found
BodyResults(g, o, a) ==
  IF o = "update"
  THEN { UpdateBody(g, a.timestamp_sample, << a.x[1], a.y[1], a.z[1] >>, put).g
           : put \in PutResults }
  ELSE { FIFOBody(g, a, c[1].last, c[1].sum, c[2]).g
           : c \in GarbageFor(a.samples) \X Int16Limits(g.clip_limit) }

\* C19: PublishStatus() changes nothing but the time of the last status:
\* whether or not it publishes, the object a call leaves is, in every other
\* field (clip counters, accumulation, counters, last sample, previous
\* timestamp, vibration state, error count), the object its part before
\* PublishStatus() left.
C19_StatusFrame ==
  [][ (calls' = calls + 1)
        => /\ [gyro' EXCEPT !.status_last_publish = gyro.status_last_publish]
                \in BodyResults(gyro, op', arg')
           /\ gyro'.status_last_publish
                = IF pub'.status = <<>> THEN gyro.status_last_publish
                  ELSE pub'.status[1].timestamp ]_vars

C19_Witness ==
  /\ pub.status # <<>> /\ Len(status_times) = 2 /\ gyro.status_last_publish = now
  /\ gyro.clipping[3] >= 1 /\ gyro.integrator_samples = 1
  /\ gyro.integrator_clipping = 1 /\ gyro.last_sample[3] = 32767
  /\ gyro.delta_angle_prev # <<0, 0, 0>>

\* C20: in a run of updateFIFO() calls under one reset count K, the batch
\* counter is below max(1, K) after every call, and a delta angle report
\* covers exactly max(1, K) consecutive batches, of which only the first may
\* have triggered the gap reset (so, for K >= 2, a batch that triggers it
\* never reports).
C20_BatchCounterBelowK ==
  (steady /\ fifo_calls > 0)
    => /\ gyro.integrator_samples < Max(1, gyro.integrator_reset_samples)
       /\ Flushed => /\ Len(window) = Max(1, gyro.integrator_reset_samples)
                      /\ \A k \in 2..Len(window) : ~window[k].gap
====
